---- MODULE Spec2Model ----
(***************************************************************************)
(* Model of the loterias.json collector: BaseService.run (services/base.py) *)
(* synchronising one series' store file with the remote numbered sequence.  *)
(* One series, several consecutive runs; the remote changes between runs.   *)
(***************************************************************************)
EXTENDS Integers, Sequences, FiniteSets, TLC

\* ---------------------------------------------------------------- bounds
MaxId == 3          \* highest concurso number the remote can ever serve
MaxStoreLen == 2    \* longest array found in the store file before run 1
MaxRuns == 2        \* consecutive executions of run()

Ids == 1..MaxId

\* ------------------------------------------------------------ data shapes
\* A raw API response.  kind:
\*   "ok"          JSON object with numero, dataApuracao, listaDezenas
\*   "fail"        session.get / raise_for_status / response.json() raises
\*   "nonumero"    JSON object without the "numero" key
\*   "badnum"      "numero" present but not an integer (null, string)
\*   "incomplete"  "numero" present, dataApuracao or listaDezenas absent
RecordKinds == {"ok", "fail", "incomplete"}
LatestKinds == {"ok", "fail", "nonumero", "badnum", "incomplete"}

Raw(k, n) == [kind |-> k, numero |-> n]

\* A stored draw: the dict transform_draw builds.  resultado "r" is what the
\* remote serves, "x" is any other content a store file may hold for that id.
Draw(n, res) == [concurso |-> n, data |-> "d", resultado |-> res]
StoreDraws == {Draw(n, res) : n \in Ids, res \in {"r", "x"}}

\* The store file.  kind:
\*   "absent"          no file
\*   "invalid"         not JSON (json.JSONDecodeError)
\*   "scalar"          JSON number / null / true (neither object nor array)
\*   "object"          one draw object (old format), elems = <<draw>>
\*   "object_nokey"    one object without "concurso"
\*   "array"           array of draw objects, elems = the draws
\*   "array_nokey"     array with an object lacking "concurso"
\*   "array_nonobject" array with an element that is not an object
File(k, es) == [kind |-> k, elems |-> es]

SeqsUpTo(S, n) == UNION {[1..m -> S] : m \in 0..n}

StoreFiles ==
    {File(k, <<>>) : k \in {"absent", "invalid", "scalar", "object_nokey",
                            "array_nokey", "array_nonobject"}}
    \cup {File("object", <<d>>) : d \in StoreDraws}
    \cup {File("array", es) : es \in SeqsUpTo(StoreDraws, MaxStoreLen)}

\* ------------------------------------------------- insertion-ordered dict
\* existing_draws is a Python dict: a sequence of entries in insertion order.
Entry(k, v) == [key |-> k, val |-> v]
Keys(d) == {d[i].key : i \in 1..Len(d)}
Values(d) == [i \in 1..Len(d) |-> d[i].val]

DictSet(d, k, v) ==
    IF k \in Keys(d)
    THEN [i \in 1..Len(d) |-> IF d[i].key = k THEN Entry(k, v) ELSE d[i]]
    ELSE Append(d, Entry(k, v))

RECURSIVE DictFromDraws(_)
DictFromDraws(es) ==
    IF es = <<>> THEN <<>>
    ELSE LET n == Len(es)
         IN DictSet(DictFromDraws(SubSeq(es, 1, n - 1)), es[n].concurso, es[n])

\* ------------------------------------------------------------- operators
\* load_existing_data: raised = an exception escapes (TypeError is not caught)
load_existing_data(f) ==
    CASE f.kind = "absent" -> [raised |-> FALSE, warned |-> FALSE, dict |-> <<>>]
      [] f.kind \in {"invalid", "object_nokey", "array_nokey"}
                           -> [raised |-> FALSE, warned |-> TRUE, dict |-> <<>>]
      [] f.kind \in {"scalar", "array_nonobject"}
                           -> [raised |-> TRUE, warned |-> FALSE, dict |-> <<>>]
      [] f.kind \in {"object", "array"}
                           -> [raised |-> FALSE, warned |-> FALSE,
                               dict |-> DictFromDraws(f.elems)]

\* transform_draw: KeyError when a required key is absent
TransformRaises(raw) == raw.kind \in {"nonumero", "incomplete"}
transform_draw(raw) == Draw(raw.numero, "r")

\* sorted(values, key=lambda x: x["concurso"]): stable, ascending
RECURSIVE InsertSorted(_, _)
InsertSorted(x, s) ==
    IF s = <<>> THEN <<x>>
    ELSE IF x.concurso < s[Len(s)].concurso
         THEN Append(InsertSorted(x, SubSeq(s, 1, Len(s) - 1)), s[Len(s)])
         ELSE Append(s, x)

RECURSIVE Sorted(_)
Sorted(vs) ==
    IF vs = <<>> THEN <<>>
    ELSE InsertSorted(vs[Len(vs)], Sorted(SubSeq(vs, 1, Len(vs) - 1)))

\* mutant of sorted_draws: the values are reversed instead of sorted
reversed_draws(d) ==
    [i \in 1..Len(d) |-> d[Len(d) + 1 - i].val]

\* base.py 176
sorted_draws(d) == Sorted(Values(d))


\* ----------------------------------------------------------------- state
VARIABLES
    file,             \* data/<name>.json
    remote,           \* the API: frontier, behaviour of the latest endpoint,
                      \* rec[k] = response served for <base_url>/k, k < frontier
    runs,             \* executions of run() finished so far
    pc,               \* position inside run(): idle, latest, reconcile,
                      \* backfill, done, aborted
    error,            \* where an exception escaped run(), "none" otherwise
    existing_draws,   \* run(): the working dict
    latest_raw,       \* run(): response of the latest query
    latest_concurso,  \* run(): the frontier
    concurso,         \* run(): loop variable of the backfill loop
    new_draws_count,  \* run(): counter printed in the final message
    warned,           \* ids named by a logger.warning of the backfill loop
    report,           \* the counts run() logs
    calls,            \* calls made on the gateway / store during this run
    inserted,         \* ids put into existing_draws by this run
    fileAtStart,      \* the store file when this run started
    prevOutcome,      \* how the previous run ended: none, done, aborted
    prevRemote,       \* the remote as the previous run saw it
    prevWarned,       \* ids the previous run warned about
    special,          \* per id, the indicator and date the API serves with it
    vpc,              \* MegaSenaDaViradaService.run: idle, done, aborted
    vfile,            \* data/mega-sena-da-virada.json
    vcalls,           \* requests MegaSenaDaViradaService.run sent to the API
    raw_data,         \* _is_virada: the raw record it is called with
    virada,           \* _is_virada: what it returned ("unset" before the call)
    dir_listing,      \* main.py: file names services_dir.glob("*.py") yields
    opc,              \* run_all_services: start, loop, finished, crashed
    service_files,    \* run_all_services: the sorted list of service files
    attempted,        \* services load_and_run_service was called with, in order
    results           \* run_all_services: results["success"], results["failed"]

\* state of the derived series, of _is_virada and of the orchestrator
others == <<special, vpc, vfile, vcalls, raw_data, virada, dir_listing, opc,
            service_files, attempted, results>>

\* state of one series' BaseService.run
base == <<file, remote, runs, pc, error, existing_draws, latest_raw,
          latest_concurso, concurso, new_draws_count, warned, report, calls,
          inserted, fileAtStart, prevOutcome, prevRemote, prevWarned>>

vars == <<base, others>>

locals == <<existing_draws, latest_raw, latest_concurso, concurso,
            new_draws_count, warned, report, calls, inserted>>

Call(op, id) == [op |-> op, id |-> id]
NoRaw == Raw("fail", 0)
NoReport == [existing |-> 0, added |-> 0, total |-> 0]

\* ---------------------------------------------------------------- remote
\* mutant of LatestRaw: the latest query is answered from the response the
\* previous run received (a cached latest response)
LatestRawStale ==
    IF prevOutcome = "done"
    THEN Raw("ok", prevRemote.frontier)
    ELSE IF remote.latest \in {"ok", "incomplete"}
         THEN Raw(remote.latest, remote.frontier)
         ELSE Raw(remote.latest, 0)

\* fetch_json(): GET base_url, the record of the highest concurso
LatestRaw ==
    IF remote.latest \in {"ok", "incomplete"}
    THEN Raw(remote.latest, remote.frontier)
    ELSE Raw(remote.latest, 0)

\* fetch_json(f"{base_url}/{c}"): ids past the frontier do not exist yet
NumberedRaw(c) ==
    IF c < remote.frontier THEN remote.rec[c]
    ELSE IF c = remote.frontier THEN LatestRaw
    ELSE NoRaw

\* what the API may answer for <base_url>/c; anyNumero: the record served
\* under c may carry another concurso number in its "numero" field
Records(c, anyNumero) ==
    {Raw("fail", 0), Raw("incomplete", c)}
    \cup {Raw("ok", n) : n \in IF anyNumero THEN Ids ELSE {c}}

Remotes(anyNumero) ==
    UNION {{[frontier |-> f, latest |-> l, rec |-> r] :
               l \in LatestKinds,
               r \in {q \in [1..(f - 1) -> UNION {Records(c, anyNumero) : c \in Ids}] :
                         \A c \in 1..(f - 1) : q[c] \in Records(c, anyNumero)}}
           : f \in Ids}

\* ------------------------------------------------------------------ Init
InitRun ==
    /\ runs = 0
    /\ pc = "idle"
    /\ error = "none"
    /\ existing_draws = <<>>
    /\ latest_raw = NoRaw
    /\ latest_concurso = 0
    /\ concurso = 0
    /\ new_draws_count = 0
    /\ warned = {}
    /\ report = NoReport
    /\ calls = <<>>
    /\ inserted = {}
    /\ fileAtStart = file
    /\ prevOutcome = "none"
    /\ prevRemote = remote
    /\ prevWarned = {}

\* the derived series at rest
InitVirada ==
    /\ special = <<>>
    /\ vpc = "idle"
    /\ vfile = File("absent", <<>>)
    /\ vcalls = <<>>

\* no call of _is_virada under way
InitIsVirada ==
    /\ raw_data = <<>>
    /\ virada = "unset"

\* the orchestrator at rest
InitOrch ==
    /\ dir_listing = {}
    /\ opc = "start"
    /\ service_files = <<>>
    /\ attempted = <<>>
    /\ results = [success |-> 0, failed |-> 0]

\* the derived series, _is_virada and the orchestrator at rest
InitOthers ==
    /\ InitVirada
    /\ InitIsVirada
    /\ InitOrch

Init ==
    /\ file \in StoreFiles
    /\ remote \in Remotes(FALSE)
    /\ InitRun
    /\ InitOthers

\* ------------------------------------------------------------- run() steps
Abort(why) ==
    /\ pc' = "aborted"
    /\ error' = why

\* base.py 142-144
StartRun ==
    /\ pc = "idle"
    /\ runs < MaxRuns
    /\ fileAtStart' = file
    /\ LET r == load_existing_data(file)
       IN IF r.raised
          THEN /\ Abort("load")
               /\ UNCHANGED locals
          ELSE /\ pc' = "latest"
               /\ existing_draws' = r.dict
               /\ report' = [report EXCEPT !.existing = Len(r.dict)]
               /\ UNCHANGED <<error, latest_raw, latest_concurso, concurso,
                              new_draws_count, warned, calls, inserted>>
    /\ UNCHANGED <<file, remote, runs, prevOutcome, prevRemote, prevWarned>>
    /\ UNCHANGED others

\* mutant of DiscoveryRaises: a failure of the latest query is swallowed
DiscoverySwallowed(raw) == FALSE

\* base.py 147-148: fetch_json() raises, or latest_raw["numero"] raises KeyError
DiscoveryRaises(raw) == raw.kind \in {"fail", "nonumero"}

\* base.py 146-149
FetchLatest ==
    /\ pc = "latest"
    /\ calls' = Append(calls, Call("latest", 0))
    /\ LET raw == LatestRaw
       IN IF DiscoveryRaises(raw)
          THEN /\ Abort(IF raw.kind = "fail" THEN "fetch_latest" ELSE "numero")
               /\ UNCHANGED <<latest_raw, latest_concurso>>
          ELSE /\ pc' = "reconcile"
               /\ latest_raw' = raw
               /\ latest_concurso' = raw.numero
               /\ UNCHANGED error
    /\ UNCHANGED <<file, remote, runs, existing_draws, concurso,
                   new_draws_count, warned, report, inserted, fileAtStart,
                   prevOutcome, prevRemote, prevWarned>>
    /\ UNCHANGED others

\* mutant of LatestMissing: the latest draw is stored unconditionally
LatestAlwaysMissing(d, c) == TRUE

\* base.py 152: if latest_concurso not in existing_draws
LatestMissing(d, c) == c \notin Keys(d)

\* base.py 151-157: insert the latest draw, enter the loop
Reconcile ==
    /\ pc = "reconcile"
    /\ IF LatestMissing(existing_draws, latest_concurso)
          /\ TransformRaises(latest_raw)
       THEN /\ Abort("transform_latest")
            /\ UNCHANGED <<existing_draws, inserted, concurso, new_draws_count>>
       ELSE IF latest_raw.kind = "badnum"
       THEN \* range(1, latest_concurso + 1) raises TypeError
            /\ Abort("range")
            /\ UNCHANGED <<existing_draws, inserted, concurso, new_draws_count>>
       ELSE /\ IF LatestMissing(existing_draws, latest_concurso)
               THEN /\ existing_draws' = DictSet(existing_draws, latest_concurso,
                                                 transform_draw(latest_raw))
                    /\ inserted' = inserted \cup {latest_concurso}
               ELSE UNCHANGED <<existing_draws, inserted>>
            /\ new_draws_count' = 0
            /\ concurso' = 1
            /\ pc' = "backfill"
            /\ UNCHANGED error
    /\ UNCHANGED <<file, remote, runs, latest_raw, latest_concurso, warned,
                   report, calls, fileAtStart, prevOutcome, prevRemote, prevWarned>>
    /\ UNCHANGED others

\* mutant of AlreadyHave: no id is taken as present, every id is fetched
NeverHave(d, c) == FALSE

\* mutant of AlreadyHave: every id is taken as present, nothing is fetched
AlwaysHave(d, c) == TRUE

\* base.py 158: if concurso in existing_draws: continue
AlreadyHave(d, c) == c \in Keys(d)

\* mutant of Caught: only transport errors are caught, a KeyError escapes
CaughtTransportOnly(raw) == raw.kind = "fail"

\* base.py 166: except Exception catches what fetch_json / transform_draw raise
Caught(raw) == TRUE

\* mutant of LogWarning: the failure is swallowed without a log entry
LogNothing(w, c) == w

\* base.py 167-169: the warning names the id
LogWarning(w, c) == w \cup {c}

\* mutant of AfterFailure: break instead of continue
BreakLoop(c) == latest_concurso + 1

\* base.py 170: continue with the next id
AfterFailure(c) == c + 1

\* base.py 165
CountNew(n) == n + 1

\* base.py 157-173: one iteration of the loop
BackfillStep ==
    /\ pc = "backfill"
    /\ concurso <= latest_concurso
    /\ IF AlreadyHave(existing_draws, concurso)
       THEN /\ concurso' = concurso + 1
            /\ UNCHANGED <<pc, error, existing_draws, new_draws_count, warned,
                           calls, inserted>>
       ELSE LET raw == NumberedRaw(concurso)
            IN /\ calls' = Append(calls, Call("get", concurso))
               /\ IF raw.kind = "fail" \/ TransformRaises(raw)
                  THEN IF Caught(raw)
                       THEN /\ warned' = LogWarning(warned, concurso)
                            /\ concurso' = AfterFailure(concurso)
                            /\ UNCHANGED <<pc, error, existing_draws,
                                           new_draws_count, inserted>>
                       ELSE /\ Abort("backfill")
                            /\ UNCHANGED <<existing_draws, new_draws_count,
                                           warned, inserted, concurso>>
                  ELSE /\ existing_draws' = DictSet(existing_draws, concurso,
                                                    transform_draw(raw))
                       /\ new_draws_count' = CountNew(new_draws_count)
                       /\ inserted' = inserted \cup {concurso}
                       /\ concurso' = concurso + 1
                       /\ UNCHANGED <<pc, error, warned>>
    /\ UNCHANGED <<file, remote, runs, latest_raw, latest_concurso, report,
                   fileAtStart, prevOutcome, prevRemote, prevWarned>>
    /\ UNCHANGED others

\* base.py 79-100: json.dump(data) over the previous content
save_json(data) == File("array", data)

\* base.py 175-182: sort, save, log the counts
Persist ==
    /\ pc = "backfill"
    /\ concurso > latest_concurso
    /\ file' = save_json(sorted_draws(existing_draws))
    /\ calls' = Append(calls, Call("save", 0))
    /\ report' = [report EXCEPT !.added = new_draws_count,
                                !.total = Len(sorted_draws(existing_draws))]
    /\ pc' = "done"
    /\ UNCHANGED <<remote, runs, error, existing_draws, latest_raw,
                   latest_concurso, concurso, new_draws_count, warned,
                   inserted, fileAtStart, prevOutcome, prevRemote, prevWarned>>
    /\ UNCHANGED others

\* run() has returned or raised; the process ends, the next one starts fresh
Finish ==
    /\ pc \in {"done", "aborted"}
    /\ pc' = "idle"
    /\ runs' = runs + 1
    /\ prevOutcome' = pc
    /\ prevRemote' = remote
    /\ error' = "none"
    /\ existing_draws' = <<>>
    /\ latest_raw' = NoRaw
    /\ latest_concurso' = 0
    /\ concurso' = 0
    /\ new_draws_count' = 0
    /\ warned' = {}
    /\ report' = NoReport
    /\ calls' = <<>>
    /\ inserted' = {}
    /\ prevWarned' = IF pc = "done" THEN warned ELSE {}
    /\ UNCHANGED <<file, remote, fileAtStart>>
    /\ UNCHANGED others

\* between two runs a new draw is published: the frontier moves up by one and
\* the former latest record becomes a numbered record
RemoteAdvance ==
    /\ pc = "idle"
    /\ runs \in 1..(MaxRuns - 1)
    /\ remote.frontier < MaxId
    /\ \E r \in Records(remote.frontier, FALSE) :
          remote' = [remote EXCEPT !.frontier = @ + 1,
                                   !.rec = Append(@, r)]
    /\ UNCHANGED <<file, runs, pc, error, locals, fileAtStart, prevOutcome,
                   prevRemote, prevWarned>>
    /\ UNCHANGED others

Next ==
    \/ StartRun
    \/ FetchLatest
    \/ Reconcile
    \/ BackfillStep
    \/ Persist
    \/ Finish
    \/ RemoteAdvance

Spec == Init /\ [][Next]_vars

\* between two runs the API recovers: one response that failed or lacked a
\* field is served complete from now on
RemoteHeal ==
    /\ pc = "idle"
    /\ runs \in 1..(MaxRuns - 1)
    /\ \/ /\ remote.latest # "ok"
          /\ remote' = [remote EXCEPT !.latest = "ok"]
       \/ \E c \in 1..(remote.frontier - 1) :
             /\ remote.rec[c].kind # "ok"
             /\ remote' = [remote EXCEPT !.rec[c] = Raw("ok", c)]
    /\ UNCHANGED <<file, runs, pc, error, locals, fileAtStart, prevOutcome,
                   prevRemote, prevWarned>>
    /\ UNCHANGED others

InitRecover ==
    /\ file \in {File("absent", <<>>), File("invalid", <<>>)}
                \cup {File("array", <<d>>) : d \in StoreDraws}
    /\ remote \in Remotes(FALSE)
    /\ InitRun
    /\ InitOthers

NextRecover ==
    \/ Next
    \/ RemoteHeal

\* repeated runs against an API that may recover between runs
SpecRecover == InitRecover /\ [][NextRecover]_vars

\* the same program against an API whose numbered records may carry a
\* "numero" different from the id in the request path
InitAnyNumero ==
    /\ file \in {File("absent", <<>>)} \cup {File("array", <<d>>) : d \in StoreDraws}
    /\ remote \in {m \in Remotes(TRUE) : m.latest \in {"ok", "fail"}}
    /\ InitRun
    /\ InitOthers

SpecAnyNumero == InitAnyNumero /\ [][Next]_vars


\* ------------------------------------------------- full-rebuild policy
\* mega-sena-da-virada.py 66-75: the draws kept for ids 1..n, in loop order;
\* keep is the set of raw records the filter selects
RebuildLoop(n, keep) ==
    LET kept[i \in 0..n] ==
            IF i = 0 THEN <<>>
            ELSE LET raw == NumberedRaw(i)
                 IN IF raw.kind = "fail" THEN kept[i - 1]
                    ELSE IF raw \notin keep THEN kept[i - 1]
                    ELSE IF TransformRaises(raw) THEN kept[i - 1]
                    ELSE Append(kept[i - 1], transform_draw(raw))
    IN kept[n]

\* mega-sena-da-virada.py 50-80: start from an empty list, fetch every id up
\* to the frontier, keep the draws the predicate selects, sort, save
FullRebuild(keep) ==
    LET raw == LatestRaw
    IN IF DiscoveryRaises(raw) \/ raw.kind = "badnum"
          \/ (raw \in keep /\ TransformRaises(raw))
       THEN [raised |-> TRUE, data |-> <<>>]
       ELSE [raised |-> FALSE,
             data |-> Sorted((IF raw \in keep THEN <<transform_draw(raw)>> ELSE <<>>)
                             \o RebuildLoop(raw.numero - 1, keep))]

\* ---------------------------------------------------------------- helpers
Range(q) == {q[i] : i \in 1..Len(q)}
PersistedIds == {file.elems[i].concurso : i \in 1..Len(file.elems)}
CountOp(op) == Cardinality({i \in 1..Len(calls) : calls[i].op = op})
Loaded == load_existing_data(fileAtStart)
KeepAll == {Raw(k, n) : k \in LatestKinds, n \in 0..MaxId}

\* ----------------------------------------------------------------- claims

\* C1: in every execution of run() the latest query is issued exactly once
\* and inside the cache-disabled scope: cache_disabled() is called once, its
\* scope is entered once before the latest query and left once after it.
C1_LatestInsideCacheBypass ==
    pc = "done" =>
        /\ CountOp("latest") = 1
        /\ CountOp("cache_disabled") = 1
        /\ CountOp("__enter__") = 1
        /\ CountOp("__exit__") = 1
        /\ \E i, j, k \in 1..Len(calls) :
              /\ i < j /\ j < k
              /\ calls[i].op = "__enter__"
              /\ calls[j].op = "latest"
              /\ calls[k].op = "__exit__"

\* C2: when the previous run succeeded with frontier N and this run succeeds
\* with frontier N+1, the collection this run persists holds a draw N+1.
SecondRunAfterAdvance ==
    /\ pc = "done"
    /\ prevOutcome = "done"
    /\ remote.frontier = prevRemote.frontier + 1

C2_FrontierFreshness ==
    SecondRunAfterAdvance => remote.frontier \in PersistedIds

C2_Witness ==
    /\ SecondRunAfterAdvance
    /\ \A i \in 1..Len(fileAtStart.elems) :
          fileAtStart.elems[i].concurso # remote.frontier

\* C3: after every successful run, whatever the store held and whatever
\* records the remote returned, the persisted array is strictly ascending by
\* concurso (no id twice).
C3_StrictlyAscending ==
    pc = "done" =>
        \A i \in 1..(Len(file.elems) - 1) :
            file.elems[i].concurso < file.elems[i + 1].concurso

\* C4: once the latest draw is reconciled, failures of fetch or transform for
\* numbered ids never abort the run, and the persisted collection holds every
\* draw loaded from the store and the draw of every id fetched and
\* transformed successfully in this run.
C4_PartialFailureTolerance ==
    /\ pc = "aborted" => error \in {"load", "fetch_latest", "numero",
                                    "transform_latest", "range"}
    /\ pc = "done" =>
          /\ Range(Values(Loaded.dict)) \subseteq Range(file.elems)
          /\ \A i \in 1..Len(calls) :
                (calls[i].op = "get" /\ NumberedRaw(calls[i].id).kind = "ok")
                    => /\ transform_draw(NumberedRaw(calls[i].id)) \in Range(file.elems)
                       /\ calls[i].id \in PersistedIds

C4_Witness ==
    /\ pc = "done"
    /\ Loaded.dict # <<>>
    /\ new_draws_count > 0
    /\ \E c \in warned : NumberedRaw(c).kind = "incomplete"

\* C5: after every successful run every id in 1..frontier is in the persisted
\* collection or was named by a warning during the run.
C5_NoSilentGap ==
    pc = "done" =>
        \A c \in 1..remote.frontier : c \in PersistedIds \/ c \in warned

C5_Witness ==
    /\ pc = "done"
    /\ \E c \in 1..remote.frontier : c \notin PersistedIds /\ c \in warned
    /\ \E c \in 1..remote.frontier : c \in PersistedIds /\ c \notin warned

\* C6: the run report states the exact counts: added is the number of ids
\* newly inserted during the run (the frontier record included), failed is
\* the number of ids whose fetch or transform failed.
C6_ExactCounts ==
    pc = "done" =>
        /\ report.added = Cardinality(inserted)
        /\ "failed" \in DOMAIN report
        /\ report.failed = Cardinality(warned)

\* C7: a successful run that follows a successful run, with the remote
\* unchanged in between, persists exactly what the first one persisted.
SecondRunSameRemote ==
    /\ pc = "done"
    /\ prevOutcome = "done"
    /\ prevRemote = remote

C7_Idempotent ==
    SecondRunSameRemote => file = fileAtStart

C7_Witness ==
    /\ SecondRunSameRemote
    /\ Len(file.elems) >= 2
    /\ warned # {}

\* C8: when frontier discovery fails (the latest query raises, or its
\* response has no usable id) the run aborts, no numbered record is fetched,
\* save_json is never called and the store file is what it was.
DiscoveryFails == remote.latest \in {"fail", "nonumero", "badnum"}

C8_DiscoveryFailureAborts ==
    (DiscoveryFails /\ pc # "idle") =>
        /\ pc \in {"latest", "reconcile", "aborted"}
        /\ pc = "reconcile" => latest_raw.kind = "badnum"
        /\ CountOp("get") = 0
        /\ CountOp("save") = 0
        /\ file = fileAtStart

C8_Witness ==
    /\ DiscoveryFails
    /\ pc = "aborted"
    /\ error \in {"fetch_latest", "numero", "range"}
    /\ Loaded.dict # <<>>

\* C9: a successful run writes the store exactly once, and only after every
\* id in 1..frontier was found locally, inserted, or skipped as failed;
\* before that the store is untouched.
C9_SingleWriteAfterBackfill ==
    /\ CountOp("save") <= 1
    /\ pc = "done" => CountOp("save") = 1
    /\ CountOp("save") = 0 => (pc = "idle" \/ file = fileAtStart)
    /\ CountOp("save") = 1 =>
          /\ calls[Len(calls)].op = "save"
          /\ \A c \in 1..remote.frontier :
                \/ c \in Keys(Loaded.dict)
                \/ c \in inserted
                \/ c \in warned

C9_Witness ==
    /\ pc = "done"
    /\ CountOp("save") = 1
    /\ CountOp("get") >= 2
    /\ file # fileAtStart

\* C10 (as stated): for any local store content the resumable run persists
\* what the full rebuild from an empty collection persists.
C10_AnyStoreEquivalent ==
    pc = "done" =>
        /\ ~FullRebuild(KeepAll).raised
        /\ file.elems = FullRebuild(KeepAll).data

\* C10 (amended): when the store loads without error and every draw loaded
\* is the draw the remote currently serves for an id up to the frontier, the
\* resumable run persists what the full rebuild persists, and aborts exactly
\* when the full rebuild aborts.
Served(d) ==
    /\ d.concurso \in 1..remote.frontier
    /\ NumberedRaw(d.concurso).kind = "ok"
    /\ d = transform_draw(NumberedRaw(d.concurso))

StoreAgreesWithRemote ==
    /\ ~Loaded.raised
    /\ \A d \in Range(Values(Loaded.dict)) : Served(d)

C10_AgreeingStoreEquivalent ==
    /\ (pc = "done" /\ StoreAgreesWithRemote) =>
          /\ ~FullRebuild(KeepAll).raised
          /\ file.elems = FullRebuild(KeepAll).data
    /\ (pc = "aborted" /\ StoreAgreesWithRemote) => FullRebuild(KeepAll).raised

C10_Witness ==
    /\ pc = "done"
    /\ StoreAgreesWithRemote
    /\ Loaded.dict # <<>>
    /\ new_draws_count > 0
    /\ warned # {}


\* C13: a transform failure on a single record (the latest record included)
\* never aborts the run.
C13_TransformNeverAborts ==
    pc = "aborted" => error \notin {"transform_latest", "backfill"}

\* C14: load_existing_data never raises: for an absent file and for every
\* kind of malformed content it returns an empty mapping (logging the
\* malformed ones) and the run proceeds.
C14_LoadNeverRaises ==
    pc # "idle" =>
        /\ ~Loaded.raised
        /\ error # "load"
        /\ fileAtStart.kind \notin {"object", "array"} => Loaded.dict = <<>>
        /\ fileAtStart.kind \notin {"object", "array", "absent"} => Loaded.warned

\* C16: a numbered request for id k is sent only for k in 1..frontier-1 that
\* the loaded collection lacks, and at most once per run; the frontier id is
\* never requested by number.
C16_FetchOnlyMissing ==
    \A i \in 1..Len(calls) :
        calls[i].op = "get" =>
            /\ calls[i].id \in 1..(latest_concurso - 1)
            /\ calls[i].id # remote.frontier
            /\ calls[i].id \notin Keys(Loaded.dict)
            /\ \A j \in 1..Len(calls) : calls[j] = calls[i] => j = i

C16_Witness ==
    /\ pc = "done"
    /\ CountOp("get") >= 1
    /\ latest_concurso \in inserted
    /\ \E k \in Keys(Loaded.dict) : k < latest_concurso

\* C17: an id the previous successful run failed on is requested again by
\* the next run as soon as its loop passes that id, and a successful run
\* against an API that answers the latest query and every numbered id
\* persists every id in 1..frontier.
AllAnswered ==
    /\ remote.latest = "ok"
    /\ \A c \in 1..(remote.frontier - 1) : remote.rec[c].kind = "ok"

C17_GapsRecoverable ==
    /\ (prevOutcome = "done" /\ pc \in {"backfill", "done"}) =>
          \A c \in prevWarned :
              c < concurso => \E i \in 1..Len(calls) : calls[i] = Call("get", c)
    /\ (pc = "done" /\ AllAnswered) =>
          \A c \in 1..remote.frontier : c \in PersistedIds

C17_Witness ==
    /\ pc = "done"
    /\ prevOutcome = "done"
    /\ prevWarned # {}
    /\ prevRemote # remote
    /\ AllAnswered
    /\ \A c \in prevWarned : c \in PersistedIds

\* C20: a run never removes or changes a draw of a well-formed store: what
\* the store held when the run started is still there, with the same
\* content, and the store stays well-formed.
WellFormed(f) ==
    /\ f.kind \in {"absent", "array"}
    /\ \A i \in 1..(Len(f.elems) - 1) :
          f.elems[i].concurso < f.elems[i + 1].concurso

C20_NoDataLoss ==
    WellFormed(fileAtStart) =>
        /\ Range(fileAtStart.elems) \subseteq Range(file.elems)
        /\ WellFormed(file)

C20_Witness ==
    /\ pc = "done"
    /\ WellFormed(fileAtStart)
    /\ file # fileAtStart
    /\ \E d \in Range(fileAtStart.elems) :
          d.resultado = "x" /\ d.concurso = latest_concurso
    /\ \E d \in Range(fileAtStart.elems) : d.concurso > latest_concurso


\* ------------------------------------------------------------ _is_virada
\* Strings are sequences of one-character strings.
Digits == <<"0", "1", "2", "3", "4", "5", "6", "7", "8", "9">>
IsDigit(ch) == \E i \in 1..10 : Digits[i] = ch
DigitVal(ch) == (CHOOSE i \in 1..10 : Digits[i] = ch) - 1

\* f"{n:02d}" and f"{n:04d}": how the API writes the parts of DD/MM/YYYY
Two(n) == <<Digits[(n \div 10) + 1], Digits[(n % 10) + 1]>>
Four(n) == Two(n \div 100) \o Two(n % 100)

\* str.startswith
StartsWith(str, prefix) ==
    /\ Len(str) >= Len(prefix)
    /\ SubSeq(str, 1, Len(prefix)) = prefix

\* str.split(sep) for a one-character separator
RECURSIVE Split(_, _)
Split(str, sep) ==
    IF \A i \in 1..Len(str) : str[i] # sep
    THEN <<str>>
    ELSE LET i == CHOOSE k \in 1..Len(str) :
                      str[k] = sep /\ \A j \in 1..(k - 1) : str[j] # sep
         IN <<SubSeq(str, 1, i - 1)>> \o Split(SubSeq(str, i + 1, Len(str)), sep)

\* int(text): ValueError unless the text is a non-empty run of digits
IntRaises(text) == text = <<>> \/ \E i \in 1..Len(text) : ~IsDigit(text[i])

RECURSIVE IntOf(_)
IntOf(text) ==
    IF text = <<>> THEN 0
    ELSE 10 * IntOf(SubSeq(text, 1, Len(text) - 1)) + DigitVal(text[Len(text)])

\* mega-sena-da-virada.py 35: the value of indicadorConcursoEspecial
ViradaIndicator == 2
\* mega-sena-da-virada.py 43: the first Virada
MinViradaYear == 2008

\* mutant of YearIsVirada: the first year is excluded
YearAfterFirst(year) == year > MinViradaYear

\* mega-sena-da-virada.py 43
YearIsVirada(year) == year >= MinViradaYear

\* mega-sena-da-virada.py 26-48.  raw: ind = the indicator (present, val),
\* dataApuracao = the date string ("" when the key is absent)
_is_virada(raw) ==
    IF raw.ind.present /\ raw.ind.val = ViradaIndicator
    THEN TRUE
    ELSE IF StartsWith(raw.dataApuracao, <<"3", "1", "/", "1", "2">>)
    THEN LET parts == Split(raw.dataApuracao, "/")
         IN IF Len(parts) < 3 THEN FALSE            \* IndexError
            ELSE IF IntRaises(parts[3]) THEN FALSE  \* ValueError
            ELSE YearIsVirada(IntOf(parts[3]))
    ELSE FALSE

\* What the API puts in a record.  A date is a calendar date or one of a few
\* malformed texts.
Indicators ==
    {[present |-> FALSE, val |-> 0]}
    \cup {[present |-> TRUE, val |-> v] : v \in 0..ViradaIndicator}

ApiDates ==
    {[form |-> "date", day |-> d, month |-> m, year |-> y] :
        d \in {30, 31}, m \in {11, 12},
        y \in (MinViradaYear - 1)..(MinViradaYear + 1)}
    \cup {[form |-> f, day |-> 31, month |-> 12, year |-> MinViradaYear] :
            f \in {"absent", "noyear", "emptyyear", "textyear"}}

\* the dataApuracao text of a date
DateText(d) ==
    CASE d.form = "date" ->
            Two(d.day) \o <<"/">> \o Two(d.month) \o <<"/">> \o Four(d.year)
      [] d.form = "absent" -> <<>>
      [] d.form = "noyear" -> Two(d.day) \o <<"/">> \o Two(d.month)
      [] d.form = "emptyyear" -> Two(d.day) \o <<"/">> \o Two(d.month) \o <<"/">>
      [] d.form = "textyear" ->
            Two(d.day) \o <<"/">> \o Two(d.month) \o <<"/", "2", "0", "x", "8">>

RawJson(a) == [ind |-> a.ind, dataApuracao |-> DateText(a.date)]

ApiAttrs == {[ind |-> i, date |-> d] : i \in Indicators, d \in ApiDates}

\* a fixed, idle series: the state of BaseService.run when it is not the
\* subject
InitBaseIdle ==
    /\ file = File("absent", <<>>)
    /\ remote = [frontier |-> 1, latest |-> "ok", rec |-> <<>>]
    /\ InitRun

InitCallIsVirada ==
    /\ InitBaseIdle
    /\ InitVirada
    /\ InitOrch
    /\ raw_data \in ApiAttrs
    /\ virada = "unset"

\* one call self._is_virada(raw_data)
CallIsVirada ==
    /\ virada = "unset"
    /\ raw_data \in ApiAttrs
    /\ virada' = IF _is_virada(RawJson(raw_data)) THEN "yes" ELSE "no"
    /\ UNCHANGED <<base, special, vpc, vfile, vcalls, raw_data, dir_listing,
                   opc, service_files, attempted, results>>

SpecIsVirada == InitCallIsVirada /\ [][CallIsVirada]_vars

\* C15 (as stated): for a record that carries the indicator, _is_virada is
\* decided by the indicator alone; the date counts only when it is absent.
C15_IndicatorDecidesWhenPresent ==
    (virada # "unset" /\ raw_data.ind.present) =>
        (virada = "yes" <=> raw_data.ind.val = 2)

\* C15 (amended): _is_virada is true when the indicator equals the special
\* value, whatever the date; for every other record, the indicator present
\* with another value included, it is true exactly when the date is 31/12
\* of a year from 2008 on.
DateIsVirada(d) ==
    /\ d.form = "date"
    /\ d.day = 31
    /\ d.month = 12
    /\ d.year >= 2008

C15_IndicatorOrDate ==
    virada # "unset" =>
        (virada = "yes" <=>
            \/ (raw_data.ind.present /\ raw_data.ind.val = 2)
            \/ DateIsVirada(raw_data.date))

C15_Witness ==
    /\ virada = "yes"
    /\ raw_data.ind.present
    /\ raw_data.ind.val # 2
    /\ DateIsVirada(raw_data.date)


\* ------------------------------------------------ the derived series' run
\* The attributes a mega-sena record may carry: an ordinary draw, a draw
\* flagged by the indicator, a draw dated 31/12 without indicator.
SeriesAttrs ==
    {[ind |-> [present |-> TRUE, val |-> 1],
      date |-> [form |-> "date", day |-> 30, month |-> 11, year |-> MinViradaYear]],
     [ind |-> [present |-> TRUE, val |-> ViradaIndicator],
      date |-> [form |-> "date", day |-> 30, month |-> 11, year |-> MinViradaYear]],
     [ind |-> [present |-> FALSE, val |-> 0],
      date |-> [form |-> "date", day |-> 31, month |-> 12, year |-> MinViradaYear]]}

\* the raw records self._is_virada selects: special[n] holds the attributes
\* of concurso n
KeepVirada ==
    {raw \in KeepAll : raw.numero \in Ids /\ _is_virada(RawJson(special[raw.numero]))}

\* mega-sena.json as the upstream series left it
UpstreamFiles ==
    {File("absent", <<>>)} \cup {File("array", <<Draw(n, "r")>>) : n \in Ids}

InitViradaRun ==
    /\ file \in UpstreamFiles
    /\ remote \in Remotes(FALSE)
    /\ InitRun
    /\ special \in [Ids -> SeriesAttrs]
    /\ vpc = "idle"
    /\ vfile = File("absent", <<>>)
    /\ vcalls = <<>>
    /\ InitIsVirada
    /\ InitOrch

\* mega-sena-da-virada.py 50-85: MegaSenaDaViradaService.run.  The session is
\* the plain requests.Session of BaseService.__init__: every fetch_json is a
\* request to the API.
ViradaRun ==
    /\ vpc = "idle"
    /\ LET raw == LatestRaw
           out == FullRebuild(KeepVirada)
       IN /\ vcalls' = <<Call("latest", 0)>>
                        \o (IF out.raised THEN <<>>
                            ELSE [c \in 1..(raw.numero - 1) |-> Call("get", c)])
          /\ vpc' = IF out.raised THEN "aborted" ELSE "done"
          /\ vfile' = IF out.raised THEN vfile ELSE File("array", out.data)
    /\ UNCHANGED <<base, special, raw_data, virada, dir_listing, opc,
                   service_files, attempted, results>>

SpecVirada == InitViradaRun /\ [][ViradaRun]_vars

\* the draws of the upstream collection that the predicate selects
IsViradaDraw(d) == _is_virada(RawJson(special[d.concurso]))
UpstreamVirada == SelectSeq(file.elems, IsViradaDraw)

\* C11: after MegaSenaDaViradaService.run the derived series' persisted
\* output holds exactly the draws of the upstream (mega-sena) collection
\* that satisfy the special-draw predicate, ascending by id.
C11_FilterOfUpstream ==
    vpc = "done" =>
        /\ vfile.kind = "array"
        /\ vfile.elems = Sorted(UpstreamVirada)

\* C12: a run of the derived series issues neither the latest query nor
\* any numbered request to the remote.
C12_NoNetworkCall ==
    vpc # "idle" => vcalls = <<>>


\* ------------------------------------------------------ the orchestrator
\* File names are sequences of characters.  The characters that occur in
\* them, in the order of their code points ("-" 0x2d, "." 0x2e, "_" 0x5f,
\* then the lower-case letters).
CodePointOrder ==
    <<"-", ".", "_", "a", "b", "c", "d", "e", "f", "g", "h", "i", "j", "k",
      "l", "m", "n", "o", "p", "q", "r", "s", "t", "u", "v", "w", "x", "y", "z">>
Ord(ch) == CHOOSE i \in 1..Len(CodePointOrder) : CodePointOrder[i] = ch

\* str.__lt__: the first differing character decides, a proper prefix is less
LexLess(a, b) ==
    \E i \in 1..(Len(a) + 1) :
        /\ i <= Len(b)
        /\ \A j \in 1..(i - 1) : a[j] = b[j]
        /\ (i = Len(a) + 1 \/ Ord(a[i]) < Ord(b[i]))

\* Path.stem of a "*.py" name
Stem(name) == SubSeq(name, 1, Len(name) - 3)

BasePy == <<"b", "a", "s", "e", ".", "p", "y">>
InitPy == <<"_", "_", "i", "n", "i", "t", "_", "_", ".", "p", "y">>
PrivatePy == <<"_", "u", "t", "i", "l", ".", "p", "y">>
MegaSena == <<"m", "e", "g", "a", "-", "s", "e", "n", "a", ".", "p", "y">>
MegaSenaDaVirada == <<"m", "e", "g", "a", "-", "s", "e", "n", "a", "-", "d", "a", "-", "v", "i", "r", "a", "d", "a", ".", "p", "y">>
Lotomania == <<"l", "o", "t", "o", "m", "a", "n", "i", "a", ".", "p", "y">>
Quina == <<"q", "u", "i", "n", "a", ".", "p", "y">>

\* what services_dir.glob("*.py") may list
PyFiles == {BasePy, InitPy, PrivatePy, MegaSena, MegaSenaDaVirada, Lotomania, Quina}

\* mutant of PathLess: the files are ordered by stem
StemLess(a, b) == LexLess(Stem(a), Stem(b))

\* main.py 80: sorted() of paths in one directory compares the file names
PathLess(a, b) == LexLess(a, b)

RECURSIVE SortedPaths(_)
SortedPaths(S) ==
    IF S = {} THEN <<>>
    ELSE LET m == CHOOSE x \in S : \A y \in S \ {x} : PathLess(x, y)
         IN <<m>> \o SortedPaths(S \ {m})

\* main.py 84: the filter of the comprehension
IsService(f) ==
    /\ Stem(f) \notin {Stem(InitPy), Stem(BasePy)}
    /\ ~StartsWith(Stem(f), <<"_">>)

\* main.py 80-86
Discovered == SortedPaths({f \in dir_listing : IsService(f)})

\* what loading and running one service file may do
Outcomes == {"ok", "raises", "nomain", "nospec"}

\* mutant of load_and_run_service: the exception of a service is not caught
load_unprotected(outcome) ==
    [escaped |-> outcome = "raises", returned |-> outcome = "ok"]

\* main.py 21-62: True only when main() returned; spec None, no main() and
\* any Exception give False
load_and_run_service(outcome) ==
    [escaped |-> FALSE, returned |-> outcome = "ok"]

InitOrchestrator ==
    /\ InitBaseIdle
    /\ InitVirada
    /\ InitIsVirada
    /\ dir_listing \in SUBSET PyFiles
    /\ opc = "start"
    /\ service_files = <<>>
    /\ attempted = <<>>
    /\ results = [success |-> 0, failed |-> 0]

\* main.py 65-94: list, filter, sort; return when nothing is found
Discover ==
    /\ opc = "start"
    /\ service_files' = Discovered
    /\ opc' = IF Discovered = <<>> THEN "finished" ELSE "loop"
    /\ results' = [success |-> 0, failed |-> 0]
    /\ UNCHANGED <<base, special, vpc, vfile, vcalls, raw_data, virada,
                   dir_listing, attempted>>

\* main.py 96-100: one iteration of the loop
RunService(outcome) ==
    /\ opc = "loop"
    /\ Len(attempted) < Len(service_files)
    /\ LET service_path == service_files[Len(attempted) + 1]
           r == load_and_run_service(outcome)
       IN /\ attempted' = Append(attempted, [path |-> service_path, outcome |-> outcome])
          /\ opc' = IF r.escaped THEN "crashed" ELSE "loop"
          /\ results' = IF r.escaped THEN results
                        ELSE IF r.returned
                        THEN [results EXCEPT !.success = @ + 1]
                        ELSE [results EXCEPT !.failed = @ + 1]
    /\ UNCHANGED <<base, special, vpc, vfile, vcalls, raw_data, virada,
                   dir_listing, service_files>>

\* main.py 102-104: the loop is over
Complete ==
    /\ opc = "loop"
    /\ Len(attempted) = Len(service_files)
    /\ opc' = "finished"
    /\ UNCHANGED <<base, special, vpc, vfile, vcalls, raw_data, virada,
                   dir_listing, service_files, attempted, results>>

NextOrchestrator ==
    \/ Discover
    \/ \E outcome \in Outcomes : RunService(outcome)
    \/ Complete

SpecOrchestrator == InitOrchestrator /\ [][NextOrchestrator]_vars

Position(path) == CHOOSE i \in 1..Len(attempted) : attempted[i].path = path
Attempted(path) == \E i \in 1..Len(attempted) : attempted[i].path = path

\* C18 (as stated): run_all_services runs the upstream series mega-sena
\* before the derived series mega-sena-da-virada.
C18_UpstreamFirst ==
    Attempted(MegaSenaDaVirada) =>
        (MegaSena \in dir_listing =>
            Attempted(MegaSena) /\ Position(MegaSena) < Position(MegaSenaDaVirada))

\* C18 (amended): run_all_services runs the derived series
\* mega-sena-da-virada before the upstream series mega-sena: when the
\* upstream series is attempted, the derived one has been attempted already.
C18_DerivedFirst ==
    (Attempted(MegaSena) /\ MegaSenaDaVirada \in dir_listing) =>
        Attempted(MegaSenaDaVirada) /\ Position(MegaSenaDaVirada) < Position(MegaSena)

C18_Witness ==
    /\ opc = "finished"
    /\ Attempted(MegaSena)
    /\ Attempted(MegaSenaDaVirada)
    /\ Position(MegaSenaDaVirada) + 1 = Position(MegaSena)

Failures == Cardinality({i \in 1..Len(attempted) : attempted[i].outcome # "ok"})

\* C19: every discovered service file is attempted exactly once, a service
\* that raises is counted as failed and the later services still run, and
\* at the end success + failed is the number of discovered services.
C19_FailureIsolation ==
    /\ opc # "crashed"
    /\ opc \in {"loop", "finished"} =>
          /\ Len(attempted) <= Len(service_files)
          /\ \A i \in 1..Len(attempted) : attempted[i].path = service_files[i]
          /\ \A i, j \in 1..Len(service_files) :
                service_files[i] = service_files[j] => i = j
          /\ Range(service_files) = {f \in dir_listing : IsService(f)}
          /\ results.success + results.failed = Len(attempted)
          /\ results.failed = Failures
    /\ opc = "finished" =>
          /\ Len(attempted) = Len(service_files)
          /\ results.success + results.failed = Len(service_files)

C19_Witness ==
    /\ opc = "finished"
    /\ Len(service_files) >= 3
    /\ attempted[1].outcome = "raises"
    /\ attempted[2].outcome = "ok"
    /\ attempted[3].outcome = "nomain"
    /\ results.failed >= 2

====
